---------------------------- MODULE Spec2Model ----------------------------
(***************************************************************************)
(* A model of the address book of task1_2.py: the field validators (Phone, *)
(* Birthday), Record, AddressBook with its birthday-window query, and the  *)
(* command handlers add_contact, change_contact and add_birthday.          *)
(*                                                                         *)
(* A Python str is a sequence of characters, each character a one-letter   *)
(* string; the token "u0663" stands for the single character U+0663        *)
(* (ARABIC-INDIC DIGIT THREE), a decimal digit that is not ASCII.  A date  *)
(* is a record [year, month, day].  An optional value (None or a value) is *)
(* a sequence of length 0 or 1.  A dict is the sequence of its items in    *)
(* insertion order.  A contact name is only ever compared and used as a    *)
(* key, so it is kept as one atomic string.  A raised exception is the     *)
(* field raised of an operation's result.                                  *)
(***************************************************************************)
EXTENDS Integers, Sequences, FiniteSets, TLC

VARIABLES
  book,      \* AddressBook.data: sequence of [key, rec], insertion order
  last,      \* the last call made: its name, arguments and outcome
  inserted   \* history: the keys in the order they were inserted

vars == <<book, last, inserted>>

---------------------------------------------------------------------------
(* Characters and strings *)

AsciiDigits == <<"0", "1", "2", "3", "4", "5", "6", "7", "8", "9">>

\* The decimal value of a character that str/int treat as a decimal digit.
DigitVal(c) ==
  IF c = "u0663" THEN 3
  ELSE (CHOOSE i \in 1..Len(AsciiDigits) : AsciiDigits[i] = c) - 1

IsAsciiDigit(c) == \E i \in 1..Len(AsciiDigits) : AsciiDigits[i] = c

\* \d of a str pattern: any Unicode decimal digit.
IsDigit(c) == IsAsciiDigit(c) \/ c = "u0663"

\* [a-b] of a str pattern, a and b ASCII digits given by value.
InRange(c, a, b) == IsAsciiDigit(c) /\ DigitVal(c) >= a /\ DigitVal(c) <= b

---------------------------------------------------------------------------
(* Phone *)

PhoneLen == 10

\* Phone.validate_phone: re.fullmatch(r"\d{10}", value), as a truth value.
validate_phone(value) ==
  /\ Len(value) = PhoneLen
  /\ \A i \in 1..Len(value) : IsDigit(value[i])

---------------------------------------------------------------------------
(* Calendar dates: datetime.date *)

MINYEAR == 1
MAXYEAR == 9999

IsLeap(y) == (y % 4 = 0) /\ ((y % 100 # 0) \/ (y % 400 = 0))

DaysInMonth(y, m) ==
  IF m = 2 THEN (IF IsLeap(y) THEN 29 ELSE 28)
  ELSE IF m \in {4, 6, 9, 11} THEN 30 ELSE 31

\* The argument check of the date constructor.
IsDate(y, m, d) ==
  /\ y >= MINYEAR /\ y <= MAXYEAR
  /\ m >= 1 /\ m <= 12
  /\ d >= 1 /\ d <= DaysInMonth(y, m)

MkDate(y, m, d) == [year |-> y, month |-> m, day |-> d]

\* date.__lt__ and date.__le__
DateLT(a, b) ==
  \/ a.year < b.year
  \/ a.year = b.year /\ a.month < b.month
  \/ a.year = b.year /\ a.month = b.month /\ a.day < b.day

DateLE(a, b) == a = b \/ DateLT(a, b)

NextDay(a) ==
  IF a.day < DaysInMonth(a.year, a.month) THEN MkDate(a.year, a.month, a.day + 1)
  ELSE IF a.month < 12 THEN MkDate(a.year, a.month + 1, 1)
  ELSE MkDate(a.year + 1, 1, 1)

\* date + timedelta(days=n), n >= 0
RECURSIVE AddDays(_, _)
AddDays(a, n) == IF n = 0 THEN a ELSE AddDays(NextDay(a), n - 1)

\* date.replace(year=y): a new date, or ValueError when y has no such day.
Replace(a, y) ==
  IF IsDate(y, a.month, a.day)
  THEN [raised |-> FALSE, date |-> MkDate(y, a.month, a.day)]
  ELSE [raised |-> TRUE, date |-> a]

Pad2(n) == <<AsciiDigits[(n \div 10) + 1], AsciiDigits[(n % 10) + 1]>>

Pad4(n) == <<AsciiDigits[(n \div 1000) + 1], AsciiDigits[((n \div 100) % 10) + 1],
             AsciiDigits[((n \div 10) % 10) + 1], AsciiDigits[(n % 10) + 1]>>

\* date.strftime('%d.%m.%Y'), years 1000..9999
Strftime(a) == Pad2(a.day) \o <<".">> \o Pad2(a.month) \o <<".">> \o Pad4(a.year)

---------------------------------------------------------------------------
(* Birthday *)

\* The alternatives of strptime's %d: 3[0-1] | [1-2]\d | 0[1-9] | [1-9] | " "[1-9]
MatchDay(t) ==
  \/ Len(t) = 2 /\ t[1] = "3" /\ InRange(t[2], 0, 1)
  \/ Len(t) = 2 /\ InRange(t[1], 1, 2) /\ IsDigit(t[2])
  \/ Len(t) = 2 /\ t[1] = "0" /\ InRange(t[2], 1, 9)
  \/ Len(t) = 1 /\ InRange(t[1], 1, 9)
  \/ Len(t) = 2 /\ t[1] = " " /\ InRange(t[2], 1, 9)

\* The alternatives of strptime's %m: 1[0-2] | 0[1-9] | [1-9]
MatchMonth(t) ==
  \/ Len(t) = 2 /\ t[1] = "1" /\ InRange(t[2], 0, 2)
  \/ Len(t) = 2 /\ t[1] = "0" /\ InRange(t[2], 1, 9)
  \/ Len(t) = 1 /\ InRange(t[1], 1, 9)

\* strptime's %Y: \d\d\d\d
MatchYear(t) == Len(t) = 4 /\ \A i \in 1..4 : IsDigit(t[i])

\* int() of a matched group; a leading space is stripped.
RECURSIVE ToInt(_)
ToInt(t) ==
  IF t = <<>> THEN 0
  ELSE IF t[Len(t)] = " " THEN 0
  ELSE 10 * ToInt(SubSeq(t, 1, Len(t) - 1)) + DigitVal(t[Len(t)])

\* The ways value splits as <day>.<month>.<year> with nothing left over:
\* pairs <<length of the day group, length of the month group>>.
Splits(value) ==
  { p \in (1..2) \X (1..2) :
      /\ Len(value) = p[1] + p[2] + 6
      /\ value[p[1] + 1] = "."
      /\ value[p[1] + p[2] + 2] = "."
      /\ MatchDay(SubSeq(value, 1, p[1]))
      /\ MatchMonth(SubSeq(value, p[1] + 2, p[1] + p[2] + 1))
      /\ MatchYear(SubSeq(value, p[1] + p[2] + 3, Len(value))) }

\* Birthday.validate_birthday: strptime(value, "%d.%m.%Y").date(), or ValueError.
validate_birthday(value) ==
  IF Splits(value) = {} THEN [raised |-> TRUE, date |-> MkDate(0, 0, 0)]
  ELSE LET p == CHOOSE q \in Splits(value) : TRUE
           d == ToInt(SubSeq(value, 1, p[1]))
           m == ToInt(SubSeq(value, p[1] + 2, p[1] + p[2] + 1))
           y == ToInt(SubSeq(value, p[1] + p[2] + 3, Len(value)))
       IN IF IsDate(y, m, d) THEN [raised |-> FALSE, date |-> MkDate(y, m, d)]
          ELSE [raised |-> TRUE, date |-> MkDate(0, 0, 0)]

---------------------------------------------------------------------------
(* None, and dict in insertion order *)

None == <<>>

Keys(d) == [i \in 1..Len(d) |-> d[i].key]

Has(d, k) == \E i \in 1..Len(d) : d[i].key = k

IndexOf(d, k) == CHOOSE i \in 1..Len(d) : d[i].key = k

\* d.get(k): None (<<>>) or the value (<<v>>)
Get(d, k) == IF Has(d, k) THEN <<d[IndexOf(d, k)].rec>> ELSE <<>>

\* d[k] = v: a present key keeps its place, a new key goes last
Put(d, k, v) ==
  IF Has(d, k) THEN [d EXCEPT ![IndexOf(d, k)] = [key |-> k, rec |-> v]]
  ELSE Append(d, [key |-> k, rec |-> v])

\* del d[k], k present
Del(d, k) == SelectSeq(d, LAMBDA e : e.key # k)

---------------------------------------------------------------------------
(* Record *)

\* Record.__init__(name, birthday): birthday is None (<<>>) or a str (<<s>>)
Record(name, birthday) ==
  IF Len(birthday) = 0 \/ Len(birthday[1]) = 0
  THEN [raised |-> FALSE,
        rec |-> [name |-> name, phones |-> <<>>, birthday |-> <<>>]]
  ELSE LET b == validate_birthday(birthday[1])
       IN [raised |-> b.raised,
           rec |-> [name |-> name, phones |-> <<>>,
                    birthday |-> IF b.raised THEN <<>> ELSE <<b.date>>]]

\* A variant of add_phone that appends before it validates
add_phone_append_first(rec, phone) ==
  [raised |-> ~validate_phone(phone), rec |-> [rec EXCEPT !.phones = Append(@, phone)]]

\* Record.add_phone: Phone(phone) raises ValueError before the append
add_phone(rec, phone) ==
  IF validate_phone(phone)
  THEN [raised |-> FALSE, rec |-> [rec EXCEPT !.phones = Append(@, phone)]]
  ELSE [raised |-> TRUE, rec |-> rec]

\* Record.remove_phone
remove_phone(rec, phone) ==
  [rec EXCEPT !.phones = SelectSeq(@, LAMBDA p : p # phone)]

\* The first index of phones holding value; 0 when none does
FirstPhone(phones, value) ==
  IF \E i \in 1..Len(phones) : phones[i] = value
  THEN CHOOSE i \in 1..Len(phones) :
         phones[i] = value /\ \A j \in 1..(i - 1) : phones[j] # value
  ELSE 0

\* Record.edit_phone: assigns new_phone to the first match, unvalidated
edit_phone(rec, old_phone, new_phone) ==
  LET i == FirstPhone(rec.phones, old_phone)
  IN IF i = 0 THEN [raised |-> FALSE, ret |-> FALSE, rec |-> rec]
     ELSE [raised |-> FALSE, ret |-> TRUE,
           rec |-> [rec EXCEPT !.phones[i] = new_phone]]

\* Record.add_birthday
add_birthday(rec, birthday) ==
  LET b == validate_birthday(birthday)
  IN IF b.raised THEN [raised |-> TRUE, rec |-> rec]
     ELSE [raised |-> FALSE, rec |-> [rec EXCEPT !.birthday = <<b.date>>]]

---------------------------------------------------------------------------
(* AddressBook *)

\* A variant of add_record that keeps the record a name already has
add_record_keep(data, record) ==
  IF Has(data, record.name) THEN data ELSE Put(data, record.name, record)

\* A variant of add_record that re-inserts: an overwritten name moves to the end
add_record_reinsert(data, record) ==
  Append(Del(data, record.name), [key |-> record.name, rec |-> record])

\* AddressBook.add_record
add_record(data, record) == Put(data, record.name, record)

\* AddressBook.find_record
find_record(data, name) == Get(data, name)

\* A variant of delete that removes the first item instead of the named one
delete_first(data, name) ==
  IF Has(data, name) THEN [ret |-> TRUE, data |-> Tail(data)]
  ELSE [ret |-> FALSE, data |-> data]

\* AddressBook.delete
delete(data, name) ==
  IF Has(data, name) THEN [ret |-> TRUE, data |-> Del(data, name)]
  ELSE [ret |-> FALSE, data |-> data]

HORIZON == 7

\* One turn of the loop of get_upcoming_birthdays, for the item e:
\* [raised, hit, date], hit when the item is appended with date.
Upcoming(e, today) ==
  IF Len(e.rec.birthday) = 0
  THEN [raised |-> FALSE, hit |-> FALSE, date |-> today]
  ELSE LET r1 == Replace(e.rec.birthday[1], today.year)
       IN IF r1.raised THEN [raised |-> TRUE, hit |-> FALSE, date |-> today]
          ELSE LET r2 == IF DateLT(r1.date, today)
                         THEN Replace(r1.date, today.year + 1) ELSE r1
               IN IF r2.raised
                  THEN [raised |-> TRUE, hit |-> FALSE, date |-> today]
                  ELSE [raised |-> FALSE,
                        hit |-> DateLE(today, r2.date)
                                /\ DateLE(r2.date, AddDays(today, HORIZON)),
                        date |-> r2.date]

\* AddressBook.get_upcoming_birthdays with date.today() = today: the list of
\* (name, 'DD.MM.YYYY'), or ValueError from the first item whose replace raises.
RECURSIVE Scan(_, _, _, _)
Scan(data, i, today, acc) ==
  IF i > Len(data) THEN [raised |-> FALSE, ret |-> acc]
  ELSE LET u == Upcoming(data[i], today)
       IN IF u.raised THEN [raised |-> TRUE, ret |-> <<>>]
          ELSE Scan(data, i + 1, today,
                    IF u.hit THEN Append(acc, <<data[i].key, Strftime(u.date)>>)
                    ELSE acc)

get_upcoming_birthdays(data, today) == Scan(data, 1, today, <<>>)

---------------------------------------------------------------------------
(* Command handlers, each under @input_error.  A returned message is      *)
(* modelled by its fixed part; the text of a caught exception by its type. *)

\* add_contact(args, book)
add_contact(args, data) ==
  IF Len(args) < 2
  THEN [ret |-> "Error: Please provide both name and phone number.", data |-> data]
  ELSE LET name == args[1]
           phone == args[2]
           found == find_record(data, name)
           record == IF Len(found) = 0 THEN Record(name, <<>>).rec ELSE found[1]
           data1 == IF Len(found) = 0 THEN add_record(data, record) ELSE data
           message == IF Len(found) = 0 THEN "Contact added." ELSE "Contact updated."
       IN IF Len(phone) > 0
          THEN LET r == add_phone(record, phone)
               IN IF r.raised THEN [ret |-> "Error: ValueError", data |-> data1]
                  ELSE [ret |-> message, data |-> Put(data1, name, r.rec)]
          ELSE [ret |-> message, data |-> data1]

\* change_contact(args, book)
change_contact(args, data) ==
  IF Len(args) < 3
  THEN [ret |-> "Error: Please provide contact name, old phone number, and new phone number.",
        data |-> data]
  ELSE IF Len(args) > 3 THEN [ret |-> "Error: ValueError", data |-> data]
  ELSE LET name == args[1]
           old_phone == args[2]
           new_phone == args[3]
           found == Get(data, name)
       IN IF Len(found) = 0 THEN [ret |-> "Contact not found.", data |-> data]
          ELSE LET i == FirstPhone(found[1].phones, old_phone)
               IN IF i = 0 THEN [ret |-> "No phone number found.", data |-> data]
                  ELSE [ret |-> "Phone number updated.",
                        data |-> Put(data, name,
                                     [found[1] EXCEPT !.phones[i] = new_phone])]

\* add_birthday(args, book), the command
add_birthday_cmd(args, data) ==
  IF Len(args) < 2
  THEN [ret |-> "Error: Please provide both name and birthday.", data |-> data]
  ELSE IF Len(args) > 2
  THEN [ret |-> "Invalid input. Please specify name and birthday in format DD.MM.YYYY.",
        data |-> data]
  ELSE LET name == args[1]
           found == Get(data, name)
       IN IF Len(found) = 0 THEN [ret |-> "Contact not found.", data |-> data]
          ELSE LET r == add_birthday(found[1], args[2])
               IN IF r.raised
                  THEN [ret |-> "Invalid input. Please specify name and birthday in format DD.MM.YYYY.",
                        data |-> data]
                  ELSE [ret |-> "Birthday has been added.",
                        data |-> Put(data, name, r.rec)]

---------------------------------------------------------------------------
(* Inputs *)

Names == {"ann", "bob"}

P_A == <<"1", "2", "3", "4", "5", "6", "7", "8", "9", "0">>
P_B == <<"0", "9", "8", "7", "6", "5", "4", "3", "2", "u0663">>
P_Short == <<"1", "2", "3", "4", "5", "6", "7", "8", "9">>
P_Alpha == <<"1", "2", "3", "4", "5", "6", "7", "8", "9", "a">>

\* Arguments of add_phone and of the add command
PhoneArgs == {P_A, P_B, P_Short, P_Alpha}

\* Arguments of remove_phone, edit_phone and the change command
EditArgs == {P_A, P_B, P_Short}

B_Leap == <<"2", "9", ".", "0", "2", ".", "2", "0", "2", "0">>
B_NewYear == <<"0", "1", ".", "0", "1", ".", "1", "9", "9", "0">>
B_Jun12 == <<"1", "2", ".", "0", "6", ".", "1", "9", "9", "0">>
B_Dec30 == <<"3", "0", ".", "1", "2", ".", "1", "9", "8", "5">>
B_Short == <<"1", ".", "2", ".", "2", "0", "2", "0">>
B_NoLeap == <<"2", "9", ".", "0", "2", ".", "2", "0", "2", "1">>
B_Feb31 == <<"3", "1", ".", "0", "2", ".", "2", "0", "2", "0">>
B_Year2 == <<"0", "1", ".", "0", "2", ".", "2", "0">>

BirthdayArgs ==
  {B_Leap, B_NewYear, B_Jun12, B_Dec30, B_Short, B_NoLeap, B_Feb31, B_Year2}

MaxPhones == 3
TodaySpan == 9

\* date.today(): runs of days across the end of February, the first half of
\* June and the turn of the year, in a common year and in a leap year
Todays ==
  { AddDays(MkDate(b[1], b[2], b[3]), k) :
      b \in {<<2023, 2, 22>>, <<2023, 6, 3>>, <<2023, 12, 24>>,
             <<2024, 2, 22>>, <<2024, 6, 3>>, <<2024, 12, 24>>},
      k \in 0..TodaySpan }

\* Records as a caller builds them: Record(name, birthday), then add_phone
RECURSIVE Built(_, _)
Built(rec, n) ==
  IF n = 0 THEN {rec}
  ELSE {rec} \cup UNION { Built(add_phone(rec, p).rec, n - 1) : p \in {P_A, P_B} }

BuiltRecords ==
  UNION { Built(Record(name, b).rec, MaxPhones) :
            name \in Names, b \in {None, <<B_Leap>>} }

---------------------------------------------------------------------------
(* State machine *)

Call(op, args, raised, ret) ==
  [op |-> op, args |-> args, raised |-> raised, ret |-> ret]

\* The history of insertions: a key is entered when it is inserted while
\* absent and leaves when it is deleted.
Entered(seq, k) ==
  IF \E i \in 1..Len(seq) : seq[i] = k THEN seq ELSE Append(seq, k)

Left(seq, k) == SelectSeq(seq, LAMBDA x : x # k)

\* The number of phones held in the book, which MaxPhones bounds
RECURSIVE TotalPhones(_)
TotalPhones(data) ==
  IF data = <<>> THEN 0 ELSE Len(Head(data).rec.phones) + TotalPhones(Tail(data))

Init ==
  /\ book = <<>>
  /\ last = Call("init", <<>>, FALSE, None)
  /\ inserted = <<>>

\* book.add_record(record)
AddRecord(record) ==
  /\ book' = add_record(book, record)
  /\ last' = Call("add_record", <<record>>, FALSE, None)
  /\ inserted' = Entered(inserted, record.name)

\* book.add_record(Record(name, birthday)); nothing is added when Record raises
NewRecord(name, birthday) ==
  LET r == Record(name, birthday)
  IN /\ book' = IF r.raised THEN book ELSE add_record(book, r.rec)
     /\ last' = Call("Record", <<name, birthday>>, r.raised, None)
     /\ inserted' = IF r.raised THEN inserted ELSE Entered(inserted, name)

\* book.find_record(name)
FindRecord(name) ==
  /\ last' = Call("find_record", <<name>>, FALSE, find_record(book, name))
  /\ UNCHANGED <<book, inserted>>

\* book.delete(name)
Delete(name) ==
  LET r == delete(book, name)
  IN /\ book' = r.data
     /\ last' = Call("delete", <<name>>, FALSE, r.ret)
     /\ inserted' = Left(inserted, name)

\* book.find_record(name).add_phone(phone)
AddPhone(name, phone) ==
  /\ Has(book, name)
  /\ LET r == add_phone(Get(book, name)[1], phone)
     IN /\ TotalPhones(Put(book, name, r.rec)) <= MaxPhones
        /\ book' = Put(book, name, r.rec)
        /\ last' = Call("add_phone", <<name, phone>>, r.raised, None)
  /\ UNCHANGED inserted

\* book.find_record(name).remove_phone(phone)
RemovePhone(name, phone) ==
  /\ Has(book, name)
  /\ book' = Put(book, name, remove_phone(Get(book, name)[1], phone))
  /\ last' = Call("remove_phone", <<name, phone>>, FALSE, None)
  /\ UNCHANGED inserted

\* book.find_record(name).edit_phone(old_phone, new_phone)
EditPhone(name, old_phone, new_phone) ==
  /\ Has(book, name)
  /\ LET r == edit_phone(Get(book, name)[1], old_phone, new_phone)
     IN /\ book' = Put(book, name, r.rec)
        /\ last' = Call("edit_phone", <<name, old_phone, new_phone>>, r.raised, r.ret)
  /\ UNCHANGED inserted

\* book.find_record(name).add_birthday(birthday)
AddBirthday(name, birthday) ==
  /\ Has(book, name)
  /\ LET r == add_birthday(Get(book, name)[1], birthday)
     IN /\ book' = Put(book, name, r.rec)
        /\ last' = Call("add_birthday", <<name, birthday>>, r.raised, None)
  /\ UNCHANGED inserted

\* The add command
AddContact(args) ==
  LET r == add_contact(args, book)
  IN /\ TotalPhones(r.data) <= MaxPhones
     /\ book' = r.data
     /\ last' = Call("add_contact", args, FALSE, r.ret)
     /\ inserted' = IF Len(args) < 2 THEN inserted ELSE Entered(inserted, args[1])

\* The change command
ChangeContact(args) ==
  LET r == change_contact(args, book)
  IN /\ book' = r.data
     /\ last' = Call("change_contact", args, FALSE, r.ret)
     /\ UNCHANGED inserted

\* The add-birthday command
AddBirthdayCmd(args) ==
  LET r == add_birthday_cmd(args, book)
  IN /\ book' = r.data
     /\ last' = Call("add_birthday_cmd", args, FALSE, r.ret)
     /\ UNCHANGED inserted

\* book.get_upcoming_birthdays() on the day today
GetUpcomingBirthdays(today) ==
  LET r == get_upcoming_birthdays(book, today)
  IN /\ last' = Call("get_upcoming_birthdays", <<today>>, r.raised, r.ret)
     /\ UNCHANGED <<book, inserted>>

AddContactArgs ==
  {<<n>> : n \in Names} \cup (Names \X PhoneArgs) \cup (Names \X {P_A} \X {P_Short})

ChangeContactArgs ==
  (Names \X {P_A}) \cup (Names \X EditArgs \X EditArgs)
    \cup (Names \X {P_A} \X {P_B} \X {P_A})

AddBirthdayCmdArgs ==
  {<<n>> : n \in Names} \cup (Names \X {B_Leap, B_Short, B_NoLeap})
    \cup (Names \X {B_Leap} \X {B_Leap})

\* Contacts and their phones: the Record operations and the add and change commands
Next ==
  \/ \E n \in Names : AddRecord(Record(n, None).rec)
  \/ \E n \in Names : Delete(n)
  \/ \E n \in Names, p \in PhoneArgs : AddPhone(n, p)
  \/ \E n \in Names, p \in EditArgs : RemovePhone(n, p)
  \/ \E n \in Names, old \in EditArgs, new \in EditArgs : EditPhone(n, old, new)
  \/ \E args \in AddContactArgs : AddContact(args)
  \/ \E args \in ChangeContactArgs : ChangeContact(args)

Spec == Init /\ [][Next]_vars

\* The mapping: records built by a caller are added, looked up and deleted
NextBook ==
  \/ \E r \in BuiltRecords : AddRecord(r)
  \/ \E n \in Names : FindRecord(n)
  \/ \E n \in Names : Delete(n)

SpecBook == Init /\ [][NextBook]_vars

\* Birthdays: records with birthdays are added and deleted, birthdays are set,
\* and the birthday window is queried on the days of Todays
NextBirthdays ==
  \/ \E n \in Names, b \in {None} \cup {<<s>> : s \in BirthdayArgs} : NewRecord(n, b)
  \/ \E n \in Names : Delete(n)
  \/ \E n \in Names, s \in BirthdayArgs : AddBirthday(n, s)
  \/ \E args \in AddBirthdayCmdArgs : AddBirthdayCmd(args)
  \/ \E today \in Todays : GetUpcomingBirthdays(today)

SpecBirthdays == Init /\ [][NextBirthdays]_vars

---------------------------------------------------------------------------
(* Properties *)

\* The characters that are decimal digits
DecimalDigits == {"0", "1", "2", "3", "4", "5", "6", "7", "8", "9", "u0663"}

\* s is exactly 10 decimal digits
TenDigits(s) == Len(s) = 10 /\ \A i \in 1..Len(s) : s[i] \in DecimalDigits

\* The phones of the record held under name
PhonesOf(data, name) == Get(data, name)[1].phones

Holds(phones, value) == \E i \in 1..Len(phones) : phones[i] = value

\* Every name but name has the same entry in a and b
SameElsewhere(a, b, name) == \A m \in Names \ {name} : Get(a, m) = Get(b, m)

\* C1: every Phone stored in every Record's phones is exactly 10 decimal
\* digits, whatever Record operations and commands have run.
C1_NoInvalidPhoneHeld ==
  \A i \in 1..Len(book) :
    \A j \in 1..Len(book[i].rec.phones) : TenDigits(book[i].rec.phones[j])

\* C2: edit_phone(old, new) on a Record holding old, with new not a valid
\* phone, fails with the invalid-phone error and leaves phones unchanged.
C2_EditPhoneRejectsInvalid ==
  [][ ( /\ last'.op = "edit_phone"
        /\ Holds(PhonesOf(book, last'.args[1]), last'.args[2])
        /\ ~TenDigits(last'.args[3]) )
      => ( /\ last'.raised
           /\ last'.ret # TRUE
           /\ book' = book ) ]_vars

\* C3: add_phone(value) with an invalid value raises and leaves phones as they
\* were; with a valid value it appends exactly that one value at the end,
\* keeping the earlier entries in order, also when value is already there.
C3_AddPhone ==
  [][ last'.op = "add_phone"
      => LET name == last'.args[1]
             value == last'.args[2]
         IN /\ IF TenDigits(value)
               THEN /\ ~last'.raised
                    /\ PhonesOf(book', name) = Append(PhonesOf(book, name), value)
               ELSE /\ last'.raised
                    /\ PhonesOf(book', name) = PhonesOf(book, name)
            /\ SameElsewhere(book, book', name)
            /\ Keys(book') = Keys(book) ]_vars

\* add_phone has just failed on a record that holds phones
C3_Witness ==
  /\ last.op = "add_phone"
  /\ last.raised
  /\ ~TenDigits(last.args[2])
  /\ Len(PhonesOf(book, last.args[1])) >= 2

\* C4: after add_record(r), find_record(r.name) returns r (same name, phones,
\* birthday); a record already under that name is replaced, not merged; no
\* name has two entries; the entries of the other names are unchanged.
C4_AddThenFind ==
  [][ last'.op = "add_record"
      => LET r == last'.args[1]
         IN /\ find_record(book', r.name) = <<r>>
            /\ \A i, j \in 1..Len(book') : book'[i].key = book'[j].key => i = j
            /\ SameElsewhere(book, book', r.name) ]_vars

\* add_record has just overwritten the record of the first of two names (a
\* name inserted by this call would be last), with a record holding phones
C4_Witness ==
  /\ last.op = "add_record"
  /\ Len(book) = 2
  /\ book[1].key = last.args[1].name
  /\ book[1].rec = last.args[1]
  /\ Len(last.args[1].phones) >= 1
  /\ Len(last.args[1].birthday) = 1

\* C5: delete(name) of an absent name returns False and changes nothing; of
\* a present name it returns True, removes that entry only and leaves the
\* other entries as they were.
C5_Delete ==
  [][ last'.op = "delete"
      => LET name == last'.args[1]
         IN IF Has(book, name)
            THEN /\ last'.ret = TRUE
                 /\ find_record(book', name) = None
                 /\ Len(book') = Len(book) - 1
                 /\ SameElsewhere(book, book', name)
            ELSE /\ last'.ret = FALSE
                 /\ book' = book ]_vars

\* delete has just removed one of two entries
C5_Witness ==
  /\ last.op = "delete"
  /\ last.ret = TRUE
  /\ Len(book) = 1
  /\ Len(inserted) = 1

\* The birthday b moved to the year y, as a day of the calendar or not
Moved(b, y) == [year |-> y, month |-> b.month, day |-> b.day]

\* The next occurrence of b on or after today: b moved to today's year, or
\* to the year after when that day is before today
NextOccurrence(b, today) ==
  IF DateLT(Moved(b, today.year), today) THEN Moved(b, today.year + 1)
  ELSE Moved(b, today.year)

InWindow(b, today) ==
  /\ DateLE(today, NextOccurrence(b, today))
  /\ DateLE(NextOccurrence(b, today), AddDays(today, 7))

\* C6: for every book and every day today, get_upcoming_birthdays returns an
\* entry for a record exactly when the record has a birthday whose next
\* occurrence d has today <= d <= today + 7 days, and the entry carries d.
C6_WindowIff ==
  last.op = "get_upcoming_birthdays"
  => LET today == last.args[1]
         ret == last.ret
     IN /\ ~last.raised
        /\ \A i \in 1..Len(book) :
             (\E k \in 1..Len(ret) : ret[k][1] = book[i].key)
               <=> ( /\ Len(book[i].rec.birthday) = 1
                     /\ InWindow(book[i].rec.birthday[1], today) )
        /\ \A k \in 1..Len(ret) :
             \E i \in 1..Len(book) :
               /\ book[i].key = ret[k][1]
               /\ Len(book[i].rec.birthday) = 1
               /\ ret[k][2] = Strftime(NextOccurrence(book[i].rec.birthday[1], today))

\* C7: get_upcoming_birthdays returns a result without raising, for every
\* reachable book and every day today, and leaves the book unchanged.
C7_NeverRaises ==
  [][ last'.op = "get_upcoming_birthdays"
      => (~last'.raised /\ book' = book) ]_vars

\* s has the form DD.MM.YYYY: two digits, a dot, two digits, a dot, four digits
StrictForm(s) ==
  /\ Len(s) = 10
  /\ s[3] = "." /\ s[6] = "."
  /\ \A i \in {1, 2, 4, 5, 7, 8, 9, 10} : s[i] \in DecimalDigits

\* s, of the strict form, names a day of the calendar
RealDate(s) ==
  IsDate(ToInt(SubSeq(s, 7, 10)), ToInt(SubSeq(s, 4, 5)), ToInt(SubSeq(s, 1, 2)))

StrictDate(s) ==
  MkDate(ToInt(SubSeq(s, 7, 10)), ToInt(SubSeq(s, 4, 5)), ToInt(SubSeq(s, 1, 2)))

\* C8: constructing a Birthday from s (in add_birthday, in Record) succeeds
\* exactly when s has the strict form DD.MM.YYYY and names a real date; any
\* other s raises and no Birthday is stored.
C8_StrictBirthday ==
  [][ ( \/ last'.op = "add_birthday"
        \/ last'.op = "Record" /\ Len(last'.args[2]) = 1 )
      => LET name == last'.args[1]
             s == IF last'.op = "Record" THEN last'.args[2][1] ELSE last'.args[2]
         IN IF StrictForm(s) /\ RealDate(s)
            THEN /\ ~last'.raised
                 /\ Get(book', name)[1].birthday = <<StrictDate(s)>>
            ELSE /\ last'.raised
                 /\ book' = book ]_vars

\* The place of name in the history of insertions
Place(name) == CHOOSE i \in 1..Len(inserted) : inserted[i] = name

\* C9: the entries of get_upcoming_birthdays come in the order in which their
\* names were inserted, whatever the dates: the mapping iterates in insertion
\* order, where overwriting a name with add_record leaves its place.
C9_InsertionOrder ==
  /\ Keys(book) = inserted
  /\ (last.op = "get_upcoming_birthdays" /\ ~last.raised)
     => \A j, k \in 1..Len(last.ret) :
          j < k => Place(last.ret[j][1]) < Place(last.ret[k][1])

\* Two entries were returned, the first with the later date
C9_Witness ==
  /\ last.op = "get_upcoming_birthdays"
  /\ ~last.raised
  /\ Len(last.ret) = 2
  /\ last.ret[1][2] = <<"0", "1", ".", "0", "1", ".", "2", "0", "2", "5">>
  /\ last.ret[2][2] = <<"3", "0", ".", "1", "2", ".", "2", "0", "2", "4">>

\* C10: the add command, given a name not in the book and a phone that fails
\* validation, returns an error message and leaves the book unchanged.
C10_AddContactAtomic ==
  [][ ( /\ last'.op = "add_contact"
        /\ Len(last'.args) >= 2
        /\ ~Has(book, last'.args[1])
        /\ ~TenDigits(last'.args[2]) )
      => ( /\ last'.ret = "Error: ValueError"
           /\ book' = book ) ]_vars

=============================================================================
